---- MODULE Spec2Model ----
(***************************************************************************)
(* Model of monitor_deployment_pipeline and of the two status providers    *)
(* it polls (src/deployment_pipeline_monitor.py), and of the routines      *)
(* beside it: the weather server (src/weather_mcp/server.py),              *)
(* get_deployment_summary, multi_api_aggregator (src/server.py) and main   *)
(* of src/check_direct_deployment.py, each with a specification of its own.*)
(*                                                                         *)
(* Time is counted in seconds.  The clock (datetime.now()) advances only   *)
(* while the coroutine is suspended at an await: during a provider call    *)
(* and during asyncio.sleep.  The synchronous statements between two       *)
(* awaits read the same clock value.  The clock never goes backwards.      *)
(*                                                                         *)
(* A Python dict is a record; a key the dict does not carry is a field the *)
(* record does not have, and d.get(k, default) is the operator Get.        *)
(***************************************************************************)
EXTENDS Integers, Sequences, FiniteSets, TLC

VARIABLES
    check_interval_seconds, \* parameter of the call
    max_duration_minutes,   \* parameter of the call
    pc,                     \* position of the coroutine
    now,                    \* the clock, seconds
    start_time,             \* local start_time
    timeline,               \* local timeline
    github_status,          \* local github_status (Unbound before line 246)
    smithery_status,        \* local smithery_status (Unbound before line 249)
    report,                 \* the returned mapping (NoReport before return)
    exception,              \* the exception the call ended with, or "none"
    iteration,              \* history: loop bodies entered
    queries,                \* history: provider calls made, per provider
    sleeps,                 \* history: asyncio.sleep calls completed
    prev_error,             \* history: a provider answered with an error in
                            \* the previous iteration
    same_as_prev,           \* history: per provider, the answer of this
                            \* iteration equals the one of the iteration before
    tools,                  \* weather server: names registered on the FastMCP instance
    wpc,                    \* weather server: position of main()
    served,                 \* weather server: the requests served so far
    summary_pc,             \* get_deployment_summary: position of the coroutine
    summary_github_status,  \* get_deployment_summary: local github_status
    smithery_reply,         \* history: what the Smithery registry did during
                            \* the call of get_deployment_summary
    summary_smithery_status,\* get_deployment_summary: local smithery_status
    deployment_summary,     \* get_deployment_summary: the returned mapping
    agg_pc,                 \* multi_api_aggregator: position of the coroutine
    urls,                   \* multi_api_aggregator: parameter urls
    fetches,                \* multi_api_aggregator: per task of fetch_url,
                            \* "pending", "ok" (an HTTP answer) or "failed"
    completed,              \* history: the tasks in the order they completed
    agg_result,             \* multi_api_aggregator: the returned mapping
    direct_pc,              \* check_direct_deployment.main: position
    checks,                 \* history: the checks main has run, in order
    workflow_analysis,      \* main: local workflow_analysis
    deployment_result,      \* main: local deployment_result
    health_result,          \* main: local health_result
    printed,                \* main: the lines of the final summary printed
    direct_exception        \* main: the exception it ended with, or "none"

monitor_vars == <<check_interval_seconds, max_duration_minutes, pc, now, start_time,
                  timeline, github_status, smithery_status, report, exception,
                  iteration, queries, sleeps, prev_error, same_as_prev>>

weather_vars == <<tools, wpc, served>>

summary_vars == <<summary_pc, summary_github_status, smithery_reply,
                  summary_smithery_status, deployment_summary>>

aggregator_vars == <<agg_pc, urls, fetches, completed, agg_result>>

direct_vars == <<direct_pc, checks, workflow_analysis, deployment_result,
                 health_result, printed, direct_exception>>

\* the state of the routines beside the monitor and the weather server
side_vars == <<summary_vars, aggregator_vars, direct_vars>>

vars == <<monitor_vars, weather_vars, side_vars>>

----------------------------------------------------------------------------
(* Bounds of the model *)

MaxMinutes == 1        \* max_duration_minutes ranges over -1..MaxMinutes
MaxIntervalUnits == 3  \* check_interval_seconds over -1..MaxIntervalUnits defaults
MaxRuns == 1           \* workflow runs in one GitHub answer
MaxServers == 1        \* servers in one Smithery answer
MaxIter == 2           \* loop iterations of one session the model follows
MaxRequests == 3       \* requests the weather server is followed through
MaxTools == 1          \* tools in the details of one Smithery server
MaxUrls == 3           \* URLs in a list whose fetches complete in every order
MaxLoggedRuns == 2     \* workflow runs analyze_workflow_logs is answered with

(* Program constants *)

SecondsPerMinute == 60      \* timedelta(minutes=...), total_seconds() / 60
DefaultCheckInterval == 30  \* check_interval_seconds: int = 30
RequestTimeout == 10        \* httpx.AsyncClient(timeout=10.0)
UrlLimit == 10              \* len(urls) > 10

----------------------------------------------------------------------------
(* Python helpers *)

None == "None"

\* d.get(k, default)
Get(d, k, default) == IF k \in DOMAIN d THEN d[k] ELSE default

\* truthiness of a list
Truthy(list) == Len(list) > 0

Last(s) == s[Len(s)]

\* a timestamp format that drops the minute field
isoformat_seconds_only(t) == <<0, t % SecondsPerMinute>>

\* datetime.isoformat(), reduced to its minute and second fields
isoformat(t) == <<t \div SecondsPerMinute, t % SecondsPerMinute>>

\* order of two isoformat strings
IsoLeq(a, b) == a[1] < b[1] \/ (a[1] = b[1] /\ a[2] <= b[2])

\* a duration that takes its argument for seconds
timedelta_seconds(m) == m

\* timedelta(minutes=m), in seconds
timedelta(m) == m * SecondsPerMinute

\* round(x, 0) of the rational n/d (d > 0, n >= 0), ties to even
RoundHalfEven(n, d) ==
    LET q == n \div d
        r == n % d
    IN  IF 2 * r < d THEN q
        ELSE IF 2 * r > d THEN q + 1
        ELSE IF q % 2 = 0 THEN q ELSE q + 1

\* round(seconds / 60, 2), in hundredths of a minute
duration_minutes(seconds) == RoundHalfEven(seconds * 100, SecondsPerMinute)

----------------------------------------------------------------------------
(* The providers *)

Statuses == {"queued", "in_progress", "completed"}
Conclusions == {None, "success", "failure", "cancelled"}

\* a workflow run as the GitHub API reports it: a conclusion is set only
\* on a completed run, and may be null there
WorkflowRun ==
    {[status |-> s, conclusion |-> None] : s \in Statuses \ {"completed"}}
    \cup {[status |-> "completed", conclusion |-> c] : c \in Conclusions}

RECURSIVE SeqsUpTo(_, _)
SeqsUpTo(S, n) ==
    IF n = 0 THEN {<<>>}
    ELSE LET shorter == SeqsUpTo(S, n - 1)
         IN  shorter \cup {Append(s, x) : s \in {t \in shorter : Len(t) = n - 1}, x \in S}

\* the runs behind the latest one are carried along and never read: the
\* model gives each of them one value, a failed run
EarlierRun == [status |-> "completed", conclusion |-> "failure"]

\* the run lists of the GitHub API, most recent first
RunLists ==
    {<<>>} \cup {<<latest>> \o [i \in 1..k |-> EarlierRun] :
                     latest \in WorkflowRun, k \in 0..(MaxRuns - 1)}

\* what the GitHub API does during one call: a request raises, or the
\* runs request answers with a list of runs
GithubReplies ==
    {[raises |-> TRUE]}
    \cup {[raises |-> FALSE, workflow_runs |-> r] : r \in RunLists}

check_github_repo_status(reply) ==
    IF reply.raises
    THEN [error |-> "GitHub API error"]
    ELSE [workflow_runs |-> reply.workflow_runs,
          total_runs |-> Len(reply.workflow_runs)]

\* a server of the Smithery registry: whether its details carry a
\* deploymentUrl, and what the health probe of that URL does
Probes == {"200", "401", "500", "raises"}

\* the servers whose details list a number of tools out of T
ServerDetails(T) ==
    {[deploymentUrl |-> FALSE, probe |-> "none", tools |-> t] : t \in T}
    \cup {[deploymentUrl |-> TRUE, probe |-> p, tools |-> t] : p \in Probes, t \in T}

\* the monitor never reads the tool counts: the servers it is answered with
\* carry one tool each
Server == ServerDetails({1})

SmitheryReplies ==
    {[raises |-> TRUE]}
    \cup {[raises |-> FALSE, servers |-> s] : s \in SeqsUpTo(Server, MaxServers)}

\* the replies with every tool count, for get_deployment_summary
SmitheryRepliesWithTools ==
    {[raises |-> TRUE]}
    \cup {[raises |-> FALSE, servers |-> s] :
              s \in SeqsUpTo(ServerDetails(0..MaxTools), MaxServers)}

\* a probe that takes every HTTP answer for a healthy one
health_status_any_answer(server) ==
    IF server.deploymentUrl
    THEN IF server.probe = "raises"
         THEN [status |-> "error", healthy |-> FALSE]
         ELSE [status |-> "healthy", healthy |-> TRUE]
    ELSE [status |-> "not_deployed", healthy |-> FALSE]

\* lines 167-185
health_status(server) ==
    IF server.deploymentUrl
    THEN IF server.probe = "raises"
         THEN [status |-> "error", healthy |-> FALSE]
         ELSE [status |-> IF server.probe \in {"200", "401"} THEN "healthy" ELSE "unhealthy",
               healthy |-> server.probe \in {"200", "401"}]
    ELSE [status |-> "not_deployed", healthy |-> FALSE]

\* line 201
deployed_servers(servers) == {i \in 1..Len(servers) : servers[i].deploymentUrl}

\* line 202
healthy_servers(servers) == {i \in 1..Len(servers) : health_status(servers[i]).healthy}

\* line 212: sum(s["tools_count"] for s in servers)
RECURSIVE total_tools(_)
total_tools(servers) ==
    IF servers = <<>> THEN 0
    ELSE servers[1].tools + total_tools(Tail(servers))

check_smithery_deployment(reply) ==
    IF reply.raises
    THEN [error |-> "Smithery API error"]
    ELSE IF ~Truthy(reply.servers)
    THEN [deployed |-> FALSE]
    ELSE [deployed |-> Cardinality(deployed_servers(reply.servers)) > 0,
          summary |-> [total_servers |-> Len(reply.servers),
                       deployed_servers |-> Cardinality(deployed_servers(reply.servers)),
                       healthy_servers |-> Cardinality(healthy_servers(reply.servers)),
                       total_tools |-> total_tools(reply.servers)]]

\* the mappings the two providers can return
GithubAnswers == {check_github_repo_status(reply) : reply \in GithubReplies}
SmitheryAnswers == {check_smithery_deployment(reply) : reply \in SmitheryReplies}

----------------------------------------------------------------------------
(* monitor_deployment_pipeline *)

Unbound == [unbound |-> TRUE]
NoReport == [status |-> "none"]
NoSummary == [summary |-> "none"]

CheckIntervals == {k * DefaultCheckInterval : k \in -1..MaxIntervalUnits}
MaxDurations == -1..MaxMinutes
\* a provider call answers at once or takes a request timeout
CallTimes == {0, RequestTimeout}

TimelineEvent(event_type, message) ==
    [timestamp |-> isoformat(now), event_type |-> event_type, message |-> message]

max_duration == timedelta(max_duration_minutes)

\* an analysis that takes an error answer of GitHub for a failed run
current_state_error_as_failure(github, smithery) ==
    LET runs == Get(github, "workflow_runs", <<>>)
    IN  [github |-> [has_recent_activity |-> Len(runs) > 0,
                     latest_run_status |-> IF Truthy(runs) THEN runs[1].status
                                           ELSE IF "error" \in DOMAIN github THEN "completed" ELSE None,
                     latest_run_conclusion |-> IF Truthy(runs) THEN runs[1].conclusion
                                               ELSE IF "error" \in DOMAIN github THEN "failure" ELSE None],
         smithery |-> [deployed |-> Get(smithery, "deployed", FALSE),
                       healthy_servers |-> Get(Get(smithery, "summary", <<>>), "healthy_servers", 0)]]

\* lines 251-262 and 265-268
current_state(github, smithery) ==
    LET runs == Get(github, "workflow_runs", <<>>)
    IN  [github |-> [has_recent_activity |-> Len(runs) > 0,
                     latest_run_status |-> IF Truthy(runs) THEN runs[1].status ELSE None,
                     latest_run_conclusion |-> IF Truthy(runs) THEN runs[1].conclusion ELSE None],
         smithery |-> [deployed |-> Get(smithery, "deployed", FALSE),
                       healthy_servers |-> Get(Get(smithery, "summary", <<>>), "healthy_servers", 0)]]

\* a log that records an error answer of GitHub as a build failure
github_events_error_logged(github) ==
    LET runs == Get(github, "workflow_runs", <<>>)
    IN  IF Truthy(runs) /\ runs[1].status = "completed"
        THEN IF runs[1].conclusion = "success"
             THEN <<TimelineEvent("github_success", <<>>)>>
             ELSE <<TimelineEvent("github_failure", <<runs[1].conclusion>>)>>
        ELSE IF "error" \in DOMAIN github
        THEN <<TimelineEvent("github_failure", <<github.error>>)>>
        ELSE <<>>

\* lines 264-281
github_events(github) ==
    LET runs == Get(github, "workflow_runs", <<>>)
    IN  IF Truthy(runs) /\ runs[1].status = "completed"
        THEN IF runs[1].conclusion = "success"
             THEN <<TimelineEvent("github_success", <<>>)>>
             ELSE <<TimelineEvent("github_failure", <<runs[1].conclusion>>)>>
        ELSE <<>>

\* lines 283-286
smithery_events(smithery, state) ==
    IF Get(smithery, "deployed", FALSE)
    THEN <<TimelineEvent("smithery_status", <<state.smithery.healthy_servers>>)>>
    ELSE <<>>

\* a success test that wants more than one healthy server
success_condition_two_healthy(state) ==
    /\ state.github.latest_run_status = "completed"
    /\ state.github.latest_run_conclusion = "success"
    /\ state.smithery.deployed
    /\ state.smithery.healthy_servers > 1

\* a success test that does not look at the healthy server count
success_condition_no_health(state) ==
    /\ state.github.latest_run_status = "completed"
    /\ state.github.latest_run_conclusion = "success"
    /\ state.smithery.deployed

\* lines 289-292
success_condition(state) ==
    /\ state.github.latest_run_status = "completed"
    /\ state.github.latest_run_conclusion = "success"
    /\ state.smithery.deployed
    /\ state.smithery.healthy_servers > 0

\* a failure test that knows the conclusion "failure" only
failure_condition_only_failure(state) ==
    /\ state.github.latest_run_status = "completed"
    /\ state.github.latest_run_conclusion = "failure"

\* a failure test that takes every concluded run for a failed one
failure_condition_any_conclusion(state) ==
    /\ state.github.latest_run_status = "completed"
    /\ state.github.latest_run_conclusion # None

\* lines 308-309
failure_condition(state) ==
    /\ state.github.latest_run_status = "completed"
    /\ state.github.latest_run_conclusion \notin {"success", None}

\* a loop test that holds once the deadline has passed
loop_condition_inverted == now - start_time > max_duration

\* a loop test that still holds at the deadline
loop_condition_inclusive == now - start_time <= max_duration

\* a loop without a deadline
loop_condition_always == TRUE

\* line 244
loop_condition == now - start_time < max_duration

\* the calls the model follows to their end: those whose loop needs at most
\* MaxIter iterations, and those with a parameter that is not positive (a
\* call whose interval is not positive spins the same way for every max
\* duration: it is followed for durations up to one minute)
Followed(interval, minutes) ==
    \/ interval <= 0 /\ minutes <= 1
    \/ minutes <= 0
    \/ interval > 0 /\ timedelta(minutes) <= MaxIter * interval

Init ==
    /\ check_interval_seconds \in CheckIntervals
    /\ max_duration_minutes \in MaxDurations
    /\ Followed(check_interval_seconds, max_duration_minutes)
    /\ pc = "call"
    /\ now = 0
    /\ start_time = 0
    /\ timeline = <<>>
    /\ github_status = Unbound
    /\ smithery_status = Unbound
    /\ report = NoReport
    /\ exception = "none"
    /\ iteration = 0
    /\ queries = [github |-> 0, smithery |-> 0]
    /\ sleeps = 0
    /\ prev_error = FALSE
    /\ same_as_prev = [github |-> FALSE, smithery |-> FALSE]
    /\ tools = {}
    /\ wpc = "main"
    /\ served = <<>>
    /\ summary_pc = "call"
    /\ summary_github_status = Unbound
    /\ smithery_reply = Unbound
    /\ summary_smithery_status = Unbound
    /\ deployment_summary = NoSummary
    /\ agg_pc = "call"
    /\ urls = <<>>
    /\ fetches = <<>>
    /\ completed = <<>>
    /\ agg_result = NoSummary
    /\ direct_pc = "main"
    /\ checks = <<>>
    /\ workflow_analysis = Unbound
    /\ deployment_result = Unbound
    /\ health_result = Unbound
    /\ printed = <<>>
    /\ direct_exception = "none"

\* a start that logs nothing
Start_silent ==
    /\ pc = "call"
    /\ start_time' = now
    /\ timeline' = <<>>
    /\ pc' = "while"
    /\ UNCHANGED <<check_interval_seconds, max_duration_minutes, now,
                   github_status, smithery_status, report, exception,
                   iteration, queries, sleeps, prev_error, same_as_prev, weather_vars, side_vars>>

\* lines 230-242
Start ==
    /\ pc = "call"
    /\ start_time' = now
    /\ timeline' = <<TimelineEvent("start", <<>>)>>
    /\ pc' = "while"
    /\ UNCHANGED <<check_interval_seconds, max_duration_minutes, now,
                   github_status, smithery_status, report, exception,
                   iteration, queries, sleeps, prev_error, same_as_prev, weather_vars, side_vars>>

\* line 244, condition true; the model follows a session for MaxIter
\* iterations (a session whose interval is not positive can spin without
\* the clock advancing)
EnterLoop ==
    /\ pc = "while"
    /\ loop_condition
    /\ iteration < MaxIter
    /\ iteration' = iteration + 1
    /\ pc' = "github"
    /\ UNCHANGED <<check_interval_seconds, max_duration_minutes, now, start_time,
                   timeline, github_status, smithery_status, report, exception,
                   queries, sleeps, prev_error, same_as_prev, weather_vars, side_vars>>

\* line 246
CallGithub ==
    /\ pc = "github"
    /\ \E answer \in GithubAnswers, d \in CallTimes :
        /\ github_status' = answer
        /\ same_as_prev' = [same_as_prev EXCEPT !.github = (answer = github_status)]
        /\ now' = now + d
    /\ queries' = [queries EXCEPT !.github = @ + 1]
    /\ pc' = "smithery"
    /\ UNCHANGED <<check_interval_seconds, max_duration_minutes, start_time,
                   timeline, smithery_status, report, exception,
                   iteration, sleeps, prev_error, weather_vars, side_vars>>

\* a poll that leaves Smithery out once the build has failed
CallSmithery_skipped_on_failure ==
    /\ pc = "smithery"
    /\ IF failure_condition(current_state(github_status, smithery_status))
       THEN UNCHANGED <<smithery_status, same_as_prev, now, queries>>
       ELSE /\ \E answer \in SmitheryAnswers, d \in CallTimes :
                /\ smithery_status' = answer
                /\ same_as_prev' = [same_as_prev EXCEPT !.smithery = (answer = smithery_status)]
                /\ now' = now + d
            /\ queries' = [queries EXCEPT !.smithery = @ + 1]
    /\ pc' = "analyze"
    /\ UNCHANGED <<check_interval_seconds, max_duration_minutes, start_time,
                   timeline, github_status, report, exception,
                   iteration, sleeps, prev_error, weather_vars, side_vars>>

\* line 249
CallSmithery ==
    /\ pc = "smithery"
    /\ \E answer \in SmitheryAnswers, d \in CallTimes :
        /\ smithery_status' = answer
        /\ same_as_prev' = [same_as_prev EXCEPT !.smithery = (answer = smithery_status)]
        /\ now' = now + d
    /\ queries' = [queries EXCEPT !.smithery = @ + 1]
    /\ pc' = "analyze"
    /\ UNCHANGED <<check_interval_seconds, max_duration_minutes, start_time,
                   timeline, github_status, report, exception,
                   iteration, sleeps, prev_error, weather_vars, side_vars>>

\* a report that spells the failed status "failure"
Report_failure_status(status, duration) ==
    [status |-> IF status = "failed" THEN "failure" ELSE status,
     message |-> status,
     duration_minutes |-> duration,
     final_state |-> [github |-> github_status, smithery |-> smithery_status],
     timeline |-> timeline']

\* a report whose final_state is a placeholder
Report_empty_final_state(status, duration) ==
    [status |-> status,
     message |-> status,
     duration_minutes |-> duration,
     final_state |-> [github |-> Unbound, smithery |-> Unbound],
     timeline |-> timeline']

\* the mappings returned at lines 296-305, 313-322 and 329-338
Report(status, duration) ==
    [status |-> status,
     message |-> status,
     duration_minutes |-> duration,
     final_state |-> [github |-> github_status, smithery |-> smithery_status],
     timeline |-> timeline']

\* an analysis whose success branch builds the report and polls on
Analyze_keeps_polling ==
    /\ pc = "analyze"
    /\ LET state == current_state(github_status, smithery_status)
           logged == timeline \o github_events(github_status)
                              \o smithery_events(smithery_status, state)
       IN  IF success_condition(state)
           THEN /\ timeline' = Append(logged, TimelineEvent("pipeline_success", <<>>))
                /\ report' = Report("success", duration_minutes(now - start_time))
                /\ pc' = "sleep"
           ELSE IF failure_condition(state)
           THEN /\ timeline' = Append(logged, TimelineEvent("pipeline_failure",
                                        <<state.github.latest_run_conclusion>>))
                /\ report' = Report("failed", duration_minutes(now - start_time))
                /\ pc' = "returned"
           ELSE /\ timeline' = logged
                /\ report' = report
                /\ pc' = "sleep"
    /\ UNCHANGED <<check_interval_seconds, max_duration_minutes, now, start_time,
                   github_status, smithery_status, exception,
                   iteration, queries, sleeps, prev_error, same_as_prev, weather_vars, side_vars>>

\* lines 251-322
Analyze ==
    /\ pc = "analyze"
    /\ LET state == current_state(github_status, smithery_status)
           logged == timeline \o github_events(github_status)
                              \o smithery_events(smithery_status, state)
       IN  IF success_condition(state)
           THEN /\ timeline' = Append(logged, TimelineEvent("pipeline_success", <<>>))
                /\ report' = Report("success", duration_minutes(now - start_time))
                /\ pc' = "returned"
           ELSE IF failure_condition(state)
           THEN /\ timeline' = Append(logged, TimelineEvent("pipeline_failure",
                                        <<state.github.latest_run_conclusion>>))
                /\ report' = Report("failed", duration_minutes(now - start_time))
                /\ pc' = "returned"
           ELSE /\ timeline' = logged
                /\ report' = report
                /\ pc' = "sleep"
    /\ UNCHANGED <<check_interval_seconds, max_duration_minutes, now, start_time,
                   github_status, smithery_status, exception,
                   iteration, queries, sleeps, prev_error, same_as_prev, weather_vars, side_vars>>

\* a sleep of two intervals
Sleep_twice ==
    /\ pc = "sleep"
    /\ now' = now + 2 * (IF check_interval_seconds > 0 THEN check_interval_seconds ELSE 0)
    /\ sleeps' = sleeps + 2
    /\ prev_error' = ("error" \in DOMAIN github_status \/ "error" \in DOMAIN smithery_status)
    /\ pc' = "while"
    /\ UNCHANGED <<check_interval_seconds, max_duration_minutes, start_time,
                   timeline, github_status, smithery_status, report, exception,
                   iteration, queries, same_as_prev, weather_vars, side_vars>>

\* line 325: asyncio.sleep returns at once for a delay <= 0
Sleep ==
    /\ pc = "sleep"
    /\ now' = now + (IF check_interval_seconds > 0 THEN check_interval_seconds ELSE 0)
    /\ sleeps' = sleeps + 1
    /\ prev_error' = ("error" \in DOMAIN github_status \/ "error" \in DOMAIN smithery_status)
    /\ pc' = "while"
    /\ UNCHANGED <<check_interval_seconds, max_duration_minutes, start_time,
                   timeline, github_status, smithery_status, report, exception,
                   iteration, queries, same_as_prev, weather_vars, side_vars>>

\* a timeout that returns a timeline of its own
Timeout_fresh_timeline ==
    /\ pc = "while"
    /\ ~loop_condition
    /\ timeline' = <<TimelineEvent("timeout", <<max_duration_minutes>>)>>
    /\ IF github_status = Unbound \/ smithery_status = Unbound
       THEN /\ exception' = "UnboundLocalError"
            /\ report' = report
            /\ pc' = "raised"
       ELSE /\ exception' = exception
            /\ report' = Report("timeout", max_duration_minutes * 100)
            /\ pc' = "returned"
    /\ UNCHANGED <<check_interval_seconds, max_duration_minutes, now, start_time,
                   github_status, smithery_status, iteration, queries, sleeps,
                   prev_error, same_as_prev, weather_vars, side_vars>>

\* line 244, condition false, and lines 327-338: the names github_status and
\* smithery_status are bound only by the loop body
Timeout ==
    /\ pc = "while"
    /\ ~loop_condition
    /\ timeline' = Append(timeline, TimelineEvent("timeout", <<max_duration_minutes>>))
    /\ IF github_status = Unbound \/ smithery_status = Unbound
       THEN /\ exception' = "UnboundLocalError"
            /\ report' = report
            /\ pc' = "raised"
       ELSE /\ exception' = exception
            /\ report' = Report("timeout", max_duration_minutes * 100)
            /\ pc' = "returned"
    /\ UNCHANGED <<check_interval_seconds, max_duration_minutes, now, start_time,
                   github_status, smithery_status, iteration, queries, sleeps,
                   prev_error, same_as_prev, weather_vars, side_vars>>

Next ==
    \/ Start
    \/ EnterLoop
    \/ CallGithub
    \/ CallSmithery
    \/ Analyze
    \/ Sleep
    \/ Timeout

Spec == Init /\ [][Next]_vars

\* the calls within the contract; the event loop resumes the coroutine after
\* every await (each provider call and each sleep ends), so a step that is
\* enabled is taken
FairInit == Init /\ check_interval_seconds > 0 /\ max_duration_minutes > 0

FairSpec == FairInit /\ [][Next]_vars /\ WF_vars(Next)

----------------------------------------------------------------------------
(* The weather server (src/weather_mcp/server.py) *)

\* line 37
tools_available == <<"ping", "health_check", "get_weather", "compare_weather">>

Range(seq) == {seq[i] : i \in 1..Len(seq)}

\* the cities a client asks for: none, a known one, one wttr.in does not know
Cities == {"", "London", "NonexistentCity123"}

\* what the request to wttr.in does (lines 50-58): it answers with the
\* weather, raise_for_status raises, the connection fails, or the JSON lacks
\* current_condition
WeatherApi == {"ok", "http_error", "network_error", "malformed"}

\* the requests a client sends to the running server
Requests ==
    {[method |-> "tools/list"]}
    \cup {[method |-> "tools/call", name |-> n] :
              n \in Range(tools_available) \ {"get_weather"}}
    \cup {[method |-> "tools/call", name |-> "get_weather", city |-> c] : c \in Cities}

\* lines 24-26
ping == "pong"

\* lines 29-38; the timestamp is left out
health_check ==
    [status |-> "healthy", server |-> "weather-mcp", version |-> "1.0.0",
     tools_available |-> tools_available]

\* lines 41-81, the body of the nested function: units and detailed only
\* shape the text of a successful answer
get_weather(city, api) ==
    IF city = "" THEN [error |-> "City name required"]
    ELSE IF api = "ok"
    THEN [city |-> city, temperature |-> "15", condition |-> "Sunny",
          humidity |-> "40%", wind |-> "10 km/h"]
    ELSE [error |-> api]

\* what the FastMCP instance answers: only a registered name can be called,
\* and a call is answered with the value the registered function returns
Response(request, api) ==
    IF request.method = "tools/list" THEN [tools |-> tools]
    ELSE IF request.name \notin tools THEN [error |-> "Unknown tool"]
    ELSE IF request.name = "ping" THEN [result |-> ping]
    ELSE IF request.name = "get_weather" THEN [result |-> get_weather(request.city, api)]
    ELSE [result |-> health_check]

\* line 111
GetMcp ==
    /\ wpc = "main"
    /\ tools' = {}
    /\ wpc' = "setup_ping"
    /\ UNCHANGED <<served, monitor_vars, side_vars>>

\* lines 23-26: the decorator registers the function under its name
RegisterPing ==
    /\ wpc = "setup_ping"
    /\ tools' = tools \cup {"ping"}
    /\ wpc' = "setup_health_check"
    /\ UNCHANGED <<served, monitor_vars, side_vars>>

\* lines 28-38, the last statement of setup_tools: the definitions of
\* get_weather and compare_weather (lines 40-106) are statements of the body
\* of health_check behind its return, and no call executes them
RegisterHealthCheck ==
    /\ wpc = "setup_health_check"
    /\ tools' = tools \cup {"health_check"}
    /\ wpc' = "run"
    /\ UNCHANGED <<served, monitor_vars, side_vars>>

\* line 115
Serve ==
    /\ wpc = "run"
    /\ Len(served) < MaxRequests
    /\ \E request \in Requests, api \in WeatherApi :
           served' = Append(served, [request |-> request,
                                     response |-> Response(request, api)])
    /\ UNCHANGED <<tools, wpc, monitor_vars, side_vars>>

WeatherInit ==
    /\ Init
    /\ check_interval_seconds = DefaultCheckInterval
    /\ max_duration_minutes = 1

WeatherNext ==
    \/ GetMcp
    \/ RegisterPing
    \/ RegisterHealthCheck
    \/ Serve

WeatherSpec == WeatherInit /\ [][WeatherNext]_vars

----------------------------------------------------------------------------
(* get_deployment_summary (src/deployment_pipeline_monitor.py) *)

\* a health assessment that does not look at the healthy server count
pipeline_healthy_no_health(github, smithery) ==
    LET runs == Get(github, "workflow_runs", <<>>)
    IN  /\ Len(runs) > 0
        /\ runs[1].conclusion = "success"
        /\ Get(smithery, "deployed", FALSE)

\* lines 348-353
pipeline_healthy(github, smithery) ==
    LET runs == Get(github, "workflow_runs", <<>>)
    IN  /\ Len(runs) > 0
        /\ runs[1].conclusion = "success"
        /\ Get(smithery, "deployed", FALSE)
        /\ Get(Get(smithery, "summary", <<>>), "healthy_servers", 0) > 0

\* recommendations that leave the tool count out
generate_recommendations_without_tools(github, smithery) ==
    LET runs == Get(github, "workflow_runs", <<>>)
        summary == Get(smithery, "summary", <<>>)
    IN  (IF ~Truthy(runs)
         THEN <<"Consider setting up GitHub Actions">>
         ELSE IF runs[1].conclusion = "failure"
         THEN <<"Fix failing GitHub workflow">>
         ELSE <<>>)
        \o (IF ~Get(smithery, "deployed", FALSE)
            THEN <<"Deploy your server">>
            ELSE IF Get(summary, "healthy_servers", 0) = 0
            THEN <<"Check server health">>
            ELSE <<>>)

\* lines 416-438, _generate_recommendations
generate_recommendations(github, smithery) ==
    LET runs == Get(github, "workflow_runs", <<>>)
        summary == Get(smithery, "summary", <<>>)
    IN  (IF ~Truthy(runs)
         THEN <<"Consider setting up GitHub Actions">>
         ELSE IF runs[1].conclusion = "failure"
         THEN <<"Fix failing GitHub workflow">>
         ELSE <<>>)
        \o (IF ~Get(smithery, "deployed", FALSE)
            THEN <<"Deploy your server">>
            ELSE (IF Get(summary, "healthy_servers", 0) = 0
                  THEN <<"Check server health">>
                  ELSE <<>>)
                 \o (IF Get(summary, "total_tools", 0) = 0
                     THEN <<"Server deployed but no tools detected">>
                     ELSE <<>>))

\* what the summary leaves unchanged
beside_summary == <<monitor_vars, weather_vars, aggregator_vars, direct_vars>>

\* line 344
SummaryCallGithub ==
    /\ summary_pc = "call"
    /\ \E answer \in GithubAnswers : summary_github_status' = answer
    /\ summary_pc' = "smithery"
    /\ UNCHANGED <<smithery_reply, summary_smithery_status, deployment_summary,
                   beside_summary>>

\* line 345
SummaryCallSmithery ==
    /\ summary_pc = "smithery"
    /\ \E reply \in SmitheryRepliesWithTools :
           /\ smithery_reply' = reply
           /\ summary_smithery_status' = check_smithery_deployment(reply)
    /\ summary_pc' = "assess"
    /\ UNCHANGED <<summary_github_status, deployment_summary, beside_summary>>

\* lines 347-362; repository and timestamp are left out
SummaryReturn ==
    /\ summary_pc = "assess"
    /\ deployment_summary' =
           [pipeline_healthy |-> pipeline_healthy(summary_github_status,
                                                  summary_smithery_status),
            github |-> summary_github_status,
            smithery |-> summary_smithery_status,
            recommendations |-> generate_recommendations(summary_github_status,
                                                         summary_smithery_status)]
    /\ summary_pc' = "done"
    /\ UNCHANGED <<summary_github_status, smithery_reply, summary_smithery_status,
                   beside_summary>>

SummaryInit ==
    /\ Init
    /\ check_interval_seconds = DefaultCheckInterval
    /\ max_duration_minutes = 1

SummaryNext ==
    \/ SummaryCallGithub
    \/ SummaryCallSmithery
    \/ SummaryReturn

SummarySpec == SummaryInit /\ [][SummaryNext]_vars

----------------------------------------------------------------------------
(* multi_api_aggregator (src/server.py) *)

UrlNames == {"https://a", "https://b"}

\* a list of n URLs in which both names alternate
LongUrlList(n) == [i \in 1..n |-> IF i % 2 = 1 THEN "https://a" ELSE "https://b"]

\* the lists the tool is called with: every list of up to MaxUrls URLs, and
\* the lists at the limit and one above it
UrlLists ==
    SeqsUpTo(UrlNames, MaxUrls) \cup {LongUrlList(UrlLimit), LongUrlList(UrlLimit + 1)}

\* lines 139-153: fetch_url returns a mapping in both cases
fetch_url(url, outcome) ==
    IF outcome = "ok" THEN [url |-> url, status |-> 200]
    ELSE [url |-> url, error |-> "request failed"]

\* results delivered in the order the tasks completed
gather_as_completed(list, outcomes) ==
    [k \in 1..Len(list) |-> fetch_url(list[completed[k]], outcomes[completed[k]])]

\* line 158: asyncio.gather delivers the results in the order of its arguments
gather(list, outcomes) ==
    [i \in 1..Len(list) |-> fetch_url(list[i], outcomes[i])]

\* lines 160-161
successful(results) == {i \in 1..Len(results) : "error" \notin DOMAIN results[i]}
failed(results) == {i \in 1..Len(results) : "error" \in DOMAIN results[i]}

\* what the aggregator leaves unchanged
beside_aggregator == <<monitor_vars, weather_vars, summary_vars, direct_vars>>

\* lines 134-137 and 155-157
AggregatorCall ==
    /\ agg_pc = "call"
    /\ \E list \in UrlLists :
           /\ urls' = list
           /\ IF ~Truthy(list) \/ Len(list) > UrlLimit
              THEN /\ agg_result' = [error |-> "Provide 1-10 URLs"]
                   /\ fetches' = <<>>
                   /\ agg_pc' = "done"
              ELSE /\ agg_result' = agg_result
                   /\ fetches' = [i \in 1..Len(list) |-> "pending"]
                   /\ agg_pc' = "gather"
    /\ UNCHANGED <<completed, beside_aggregator>>

\* lines 139-153, one task of fetch_url ends; the tasks of a list longer
\* than MaxUrls are followed in one order, the order of the list
FetchDone ==
    /\ agg_pc = "gather"
    /\ \E i \in 1..Len(urls), outcome \in {"ok", "failed"} :
           /\ fetches[i] = "pending"
           /\ Len(urls) > MaxUrls => \A j \in 1..(i - 1) : fetches[j] # "pending"
           /\ fetches' = [fetches EXCEPT ![i] = outcome]
           /\ completed' = Append(completed, i)
    /\ UNCHANGED <<agg_pc, urls, agg_result, beside_aggregator>>

\* lines 158-177, once every task has ended
AggregatorReturn ==
    /\ agg_pc = "gather"
    /\ \A i \in 1..Len(urls) : fetches[i] # "pending"
    /\ LET results == gather(urls, fetches)
       IN  agg_result' = [total_urls |-> Len(urls),
                          successful |-> Cardinality(successful(results)),
                          failed |-> Cardinality(failed(results)),
                          results |-> results]
    /\ agg_pc' = "done"
    /\ UNCHANGED <<urls, fetches, completed, beside_aggregator>>

AggregatorInit ==
    /\ Init
    /\ check_interval_seconds = DefaultCheckInterval
    /\ max_duration_minutes = 1

AggregatorNext ==
    \/ AggregatorCall
    \/ FetchDone
    \/ AggregatorReturn

AggregatorSpec == AggregatorInit /\ [][AggregatorNext]_vars

----------------------------------------------------------------------------
(* main of check_direct_deployment.py *)

\* a completed run as analyze_workflow_logs reads it: conclusion, head_branch
LoggedRun ==
    [conclusion : {"success", "failure"},
     head_branch : {"fix-github-action-transport", "main"}]

\* what the workflow-runs request does: it raises, it answers with another
\* code than 200, or it answers 200 with a list of runs
WorkflowReplies ==
    {[raises |-> TRUE]}
    \cup {[raises |-> FALSE, status_code |-> 403]}
    \cup {[raises |-> FALSE, status_code |-> 200, workflow_runs |-> runs] :
              runs \in SeqsUpTo(LoggedRun, MaxLoggedRuns)}

\* the value None where a mapping is expected
NoneObject == [type |-> "NoneType"]

\* lines 108-154: the function has no return statement for an answer other
\* than 200 and returns None there
analyze_workflow_logs(reply) ==
    IF reply.raises THEN [status |-> "error", message |-> "request failed"]
    ELSE IF reply.status_code = 200
    THEN LET runs == reply.workflow_runs
             succeeded == {i \in 1..Len(runs) : runs[i].conclusion = "success"}
             tested == {i \in succeeded :
                           runs[i].head_branch = "fix-github-action-transport"}
         IN  [successful_runs |-> Cardinality(succeeded),
              failed_runs |-> Len(runs) - Cardinality(succeeded),
              recent_success |-> \E i \in tested : runs[i] = runs[1],
              transport_fix_tested |-> tested # {}]
    ELSE NoneObject

\* lines 58-106: every path returns a mapping
DeploymentResults ==
    {[status |-> "success"], [status |-> "limited"], [status |-> "error"]}

\* lines 12-56: the first of the three URLs that answers 200, 401 or 404,
\* else not_found
HealthResults ==
    {[status |-> "found", url |-> u, status_code |-> c] :
        u \in 1..3, c \in {200, 401, 404}}
    \cup {[status |-> "not_found"]}

\* what main leaves unchanged
beside_direct == <<monitor_vars, weather_vars, summary_vars, aggregator_vars>>

\* line 165
DirectAnalyze ==
    /\ direct_pc = "main"
    /\ \E reply \in WorkflowReplies : workflow_analysis' = analyze_workflow_logs(reply)
    /\ checks' = Append(checks, "analyze_workflow_logs")
    /\ direct_pc' = "deployments"
    /\ UNCHANGED <<deployment_result, health_result, printed, direct_exception,
                   beside_direct>>

\* line 169
DirectDeployments ==
    /\ direct_pc = "deployments"
    /\ deployment_result' \in DeploymentResults
    /\ checks' = Append(checks, "check_github_deployment_status")
    /\ direct_pc' = "health"
    /\ UNCHANGED <<workflow_analysis, health_result, printed, direct_exception,
                   beside_direct>>

\* line 173
DirectHealth ==
    /\ direct_pc = "health"
    /\ health_result' \in HealthResults
    /\ checks' = Append(checks, "check_deployment_health")
    /\ direct_pc' = "summary"
    /\ UNCHANGED <<workflow_analysis, deployment_result, printed, direct_exception,
                   beside_direct>>

\* lines 176-218: line 181 tests isinstance(workflow_analysis, dict), line
\* 205 calls workflow_analysis.get without that test
DirectSummary ==
    /\ direct_pc = "summary"
    /\ LET is_dict == workflow_analysis # NoneObject
           transport ==
               IF is_dict /\ Get(workflow_analysis, "transport_fix_tested", FALSE)
               THEN <<"Transport Fix: tested",
                      IF Get(workflow_analysis, "recent_success", FALSE)
                      THEN "Latest Status: succeeded"
                      ELSE "Latest Status: had issues">>
               ELSE <<"Transport Fix: unable to determine">>
           health ==
               IF health_result.status = "found"
               THEN <<"Deployment Health: accessible">>
               ELSE <<"Deployment Health: not found">>
           steps ==
               (IF Get(workflow_analysis, "recent_success", FALSE)
                THEN <<>> ELSE <<"1. Check GitHub Actions">>)
               \o (IF health_result.status # "found"
                   THEN <<"2. Verify Smithery deployment", "3. Check deployment URL">>
                   ELSE <<>>)
               \o <<"4. Test MCP server locally", "5. Verify transport">>
       IN  IF is_dict
           THEN /\ printed' = transport \o health \o steps
                /\ direct_exception' = direct_exception
                /\ direct_pc' = "done"
           ELSE /\ printed' = transport \o health
                /\ direct_exception' = "AttributeError"
                /\ direct_pc' = "raised"
    /\ UNCHANGED <<checks, workflow_analysis, deployment_result, health_result,
                   beside_direct>>

DirectInit ==
    /\ Init
    /\ check_interval_seconds = DefaultCheckInterval
    /\ max_duration_minutes = 1

DirectNext ==
    \/ DirectAnalyze
    \/ DirectDeployments
    \/ DirectHealth
    \/ DirectSummary

DirectSpec == DirectInit /\ [][DirectNext]_vars

----------------------------------------------------------------------------
(* Vocabulary of the properties: what the providers answered, read from   *)
(* the answers themselves                                                 *)

PositiveInputs == check_interval_seconds > 0 /\ max_duration_minutes > 0

IsError(answer) == "error" \in DOMAIN answer

HasRuns(github) == "workflow_runs" \in DOMAIN github /\ Len(github.workflow_runs) > 0

BuildSucceeded(github) ==
    /\ HasRuns(github)
    /\ github.workflow_runs[1].status = "completed"
    /\ github.workflow_runs[1].conclusion = "success"

BuildFailed(github) ==
    /\ HasRuns(github)
    /\ github.workflow_runs[1].status = "completed"
    /\ github.workflow_runs[1].conclusion # "success"
    /\ github.workflow_runs[1].conclusion # None

DeployedHealthy(smithery) ==
    /\ "deployed" \in DOMAIN smithery
    /\ smithery.deployed
    /\ "summary" \in DOMAIN smithery
    /\ smithery.summary.healthy_servers >= 1

\* the events one step appended to the timeline
Appended == SubSeq(timeline', Len(timeline) + 1, Len(timeline'))

EventTypes(events) == {events[i].event_type : i \in 1..Len(events)}

ReportKeys == {"status", "message", "duration_minutes", "final_state", "timeline"}

TerminalEvents == {"pipeline_success", "pipeline_failure", "timeout"}

\* the terminal event that goes with a report status
TerminalEventOf(status) ==
    IF status = "success" THEN "pipeline_success"
    ELSE IF status = "failed" THEN "pipeline_failure"
    ELSE "timeout"

----------------------------------------------------------------------------
(* Properties *)

\* C1: a session started with a positive check interval and a positive max
\* duration returns a report whose status is "success", "failed" or
\* "timeout", whatever the providers answered.
C1_StatusInClosedSet ==
    (PositiveInputs /\ pc = "returned")
        => report.status \in {"success", "failed", "timeout"}

C1_Witness ==
    /\ PositiveInputs
    /\ pc = "returned"
    /\ report.status = "failed"
    /\ IsError(report.final_state.smithery)

\* C2: after the first step of a session the timeline is non-empty, its
\* first event is the start event, and the timestamps of consecutive events
\* do not decrease.
C2_TimelineOrdered ==
    pc # "call" =>
        /\ Len(timeline) >= 1
        /\ timeline[1].event_type = "start"
        /\ \A i \in 1..(Len(timeline) - 1) :
               IsoLeq(timeline[i].timestamp, timeline[i + 1].timestamp)

C2_Witness ==
    /\ Len(timeline) >= 3
    /\ timeline[1].event_type = "start"
    /\ \E i \in 1..(Len(timeline) - 1) :
           /\ timeline[i].timestamp[1] < timeline[i + 1].timestamp[1]
           /\ timeline[i].timestamp[2] > timeline[i + 1].timestamp[2]

\* C3: an iteration whose latest run is completed with conclusion success
\* while the deployment is deployed with at least one healthy server appends
\* pipeline_success and returns "success" in that iteration, with no further
\* sleep, provider query or iteration.
C3_SuccessSameIteration ==
    [][(pc = "analyze" /\ BuildSucceeded(github_status) /\ DeployedHealthy(smithery_status))
        => /\ pc' = "returned"
           /\ report'.status = "success"
           /\ Last(timeline').event_type = "pipeline_success"
           /\ iteration' = iteration
           /\ queries' = queries
           /\ sleeps' = sleeps]_vars

C3_Witness ==
    /\ PositiveInputs
    /\ pc = "returned"
    /\ report.status = "success"
    /\ iteration = 1
    /\ queries = [github |-> 1, smithery |-> 1]
    /\ sleeps = 0
    /\ smithery_status.summary.healthy_servers = 1

\* C4: an iteration whose latest run is completed with a conclusion that is
\* neither success nor null appends pipeline_failure and returns "failed" in
\* that iteration, whatever the deployment provider answered.
C4_FailureSameIteration ==
    [][(pc = "analyze" /\ BuildFailed(github_status))
        => /\ pc' = "returned"
           /\ report'.status = "failed"
           /\ Last(timeline').event_type = "pipeline_failure"
           /\ iteration' = iteration
           /\ queries' = queries
           /\ sleeps' = sleeps]_vars

C4_Witness ==
    /\ PositiveInputs
    /\ pc = "returned"
    /\ report.status = "failed"
    /\ iteration = 1
    /\ github_status.workflow_runs[1].conclusion = "cancelled"
    /\ DeployedHealthy(smithery_status)

\* C5: a report with status "success" is returned only from an iteration in
\* which GitHub answered without error with a latest run that is completed
\* with conclusion success, and Smithery answered without error, deployed,
\* with a healthy server count above 0.
C5_SuccessOnlyIfHealthy ==
    (pc = "returned" /\ report.status = "success")
        => /\ report.final_state = [github |-> github_status, smithery |-> smithery_status]
           /\ ~IsError(github_status)
           /\ ~IsError(smithery_status)
           /\ BuildSucceeded(github_status)
           /\ DeployedHealthy(smithery_status)

C5_Witness ==
    /\ PositiveInputs
    /\ pc = "returned"
    /\ report.status = "success"
    /\ iteration = 2
    /\ sleeps = 1

\* C6: in a session with a positive max duration, when the loop test finds
\* the elapsed time at or above max_duration the session returns "timeout"
\* with the timeout event last in the timeline; a timeout report is returned
\* only then.
C6_TimeoutAtDeadline ==
    /\ [][(pc = "while" /\ max_duration_minutes > 0
              /\ now - start_time >= max_duration_minutes * SecondsPerMinute)
           => /\ pc' = "returned"
              /\ report'.status = "timeout"
              /\ Last(report'.timeline).event_type = "timeout"]_vars
    /\ []((pc = "returned" /\ report.status = "timeout")
           => /\ now - start_time >= max_duration_minutes * SecondsPerMinute
              /\ Last(report.timeline).event_type = "timeout")

C6_Witness ==
    /\ PositiveInputs
    /\ pc = "returned"
    /\ report.status = "timeout"
    /\ iteration = 2
    /\ Last(timeline).event_type = "timeout"

\* C7: an iteration in which a provider answered with an error, and whose
\* build did not fail, goes on to the sleep without ending the session; an
\* iteration that follows one with a provider error and meets the success
\* condition returns "success".
C7_ErrorDoesNotAbort ==
    /\ [][(pc = "analyze"
              /\ (IsError(github_status) \/ IsError(smithery_status))
              /\ ~BuildFailed(github_status))
           => /\ pc' = "sleep"
              /\ report' = NoReport
              /\ exception' = "none"]_vars
    /\ [][(pc = "analyze" /\ prev_error
              /\ BuildSucceeded(github_status) /\ DeployedHealthy(smithery_status))
           => /\ pc' = "returned"
              /\ report'.status = "success"]_vars

C7_Witness ==
    /\ PositiveInputs
    /\ prev_error
    /\ iteration = 2
    /\ pc = "returned"
    /\ report.status = "success"

\* C8: an iteration in which the GitHub call failed returns no "failed"
\* report and appends neither github_failure nor pipeline_failure; an
\* iteration in which only the Smithery call failed, the build not having
\* failed, returns no "failed" report.
C8_ErrorIsNotFailure ==
    /\ [][(pc = "analyze" /\ IsError(github_status))
           => /\ report'.status # "failed"
              /\ EventTypes(Appended) \cap {"github_failure", "pipeline_failure"} = {}]_vars
    /\ [][(pc = "analyze" /\ IsError(smithery_status) /\ ~BuildFailed(github_status))
           => report'.status # "failed"]_vars

C8_Witness ==
    /\ PositiveInputs
    /\ pc = "sleep"
    /\ IsError(github_status)
    /\ IsError(smithery_status)
    /\ Len(timeline) = 1

\* C9: a call with a positive check interval and a positive max duration
\* never ends with an exception, and the mapping it returns carries status,
\* message, duration, final_state (both provider answers) and timeline.
C9_AlwaysAReport ==
    PositiveInputs =>
        /\ pc # "raised"
        /\ exception = "none"
        /\ pc = "returned" =>
              /\ DOMAIN report = ReportKeys
              /\ report.final_state.github # Unbound
              /\ report.final_state.smithery # Unbound
              /\ report.timeline = timeline

C9_Witness ==
    /\ PositiveInputs
    /\ pc = "returned"
    /\ DOMAIN report = ReportKeys
    /\ IsError(report.final_state.github)
    /\ IsError(report.final_state.smithery)

\* C10: a call with a non-positive check interval or a non-positive max
\* duration never starts a session: it appends no start event, queries no
\* provider and returns no report.
C10_InvalidInputNeverStarts ==
    ~PositiveInputs =>
        /\ timeline = <<>>
        /\ queries = [github |-> 0, smithery |-> 0]
        /\ report = NoReport

\* C11: a report exists exactly in the terminal position, its status is one
\* of the three terminal states, and from the terminal position no step
\* changes anything: no query, no sleep, no timeline append, no second report.
C11_TerminalIsFinal ==
    /\ [](pc = "call" => report = NoReport)
    /\ [](report # NoReport <=> pc = "returned")
    /\ [](pc = "returned" => report.status \in {"success", "failed", "timeout"})
    /\ [][pc = "returned" => UNCHANGED vars]_vars

C11_Witness ==
    /\ PositiveInputs
    /\ pc = "returned"
    /\ report.status = "success"
    /\ Last(timeline).event_type = "pipeline_success"
    /\ queries = [github |-> iteration, smithery |-> iteration]

\* C12: an iteration that observes the same GitHub answer and the same
\* Smithery answer as the iteration before it appends no build event and no
\* deployment event.
C12_EventsOnlyOnChange ==
    [][(pc = "analyze" /\ same_as_prev.github /\ same_as_prev.smithery)
        => EventTypes(Appended)
             \cap {"github_success", "github_failure", "smithery_status"} = {}]_vars

\* C13: every step leaves the events already in the timeline in place (the
\* timeline before the step is a prefix of the timeline after it), and the
\* timeline of the report is the session's timeline.
C13_TimelineAppendOnly ==
    /\ [][/\ Len(timeline') >= Len(timeline)
          /\ SubSeq(timeline', 1, Len(timeline)) = timeline]_vars
    /\ [](pc = "returned" => report.timeline = timeline)

C13_Witness ==
    /\ pc = "returned"
    /\ Len(report.timeline) >= 5
    /\ report.timeline[2].event_type = "github_success"

\* C14: the final_state of a timeout report is the pair of answers of the
\* last iteration that ran: both providers were queried in that iteration,
\* and only the calls of an iteration write the two answers.
C14_TimeoutCarriesLastAnswers ==
    /\ []((pc = "returned" /\ report.status = "timeout")
           => /\ iteration >= 1
              /\ queries = [github |-> iteration, smithery |-> iteration]
              /\ github_status \in GithubAnswers
              /\ smithery_status \in SmitheryAnswers
              /\ report.final_state = [github |-> github_status,
                                       smithery |-> smithery_status])
    /\ [][github_status' # github_status
            => pc = "github" /\ queries'.github = iteration]_vars
    /\ [][smithery_status' # smithery_status
            => pc = "smithery" /\ queries'.smithery = iteration]_vars

C14_Witness ==
    /\ PositiveInputs
    /\ pc = "returned"
    /\ report.status = "timeout"
    /\ iteration = 2
    /\ ~same_as_prev.github
    /\ ~same_as_prev.smithery
    /\ HasRuns(report.final_state.github)

\* C15: the duration of every report is the elapsed time of the session at
\* the return, in minutes rounded to two places.
C15_DurationIsElapsed ==
    pc = "returned" => report.duration_minutes = duration_minutes(now - start_time)

\* C16 as stated: a session with positive parameters returns its report no
\* later than max_duration after its start.
C16_ReturnsWithinMaxDuration ==
    (PositiveInputs /\ pc = "returned")
        => now - start_time <= max_duration_minutes * SecondsPerMinute

\* C16 amended: an iteration begins only while the elapsed time is below
\* max_duration, the first loop test at or after max_duration ends the call
\* at once, and the report follows the start by less than max_duration plus
\* one check interval plus the time of the provider calls of one iteration.
C16_OvershootBounded ==
    /\ [][iteration' # iteration
            => now - start_time < max_duration_minutes * SecondsPerMinute]_vars
    /\ [][(pc = "while" /\ now - start_time >= max_duration_minutes * SecondsPerMinute)
            => pc' \in {"returned", "raised"} /\ now' = now]_vars
    /\ []((PositiveInputs /\ pc = "returned")
            => now - start_time < max_duration_minutes * SecondsPerMinute
                                    + check_interval_seconds + 2 * RequestTimeout)

C16_Witness ==
    /\ PositiveInputs
    /\ check_interval_seconds > max_duration_minutes * SecondsPerMinute
    /\ pc = "returned"
    /\ now - start_time > max_duration_minutes * SecondsPerMinute

\* C17: every call with positive parameters eventually returns a report.
C17_Terminates == <>(pc = "returned" /\ report # NoReport)

C17_Witness ==
    /\ PositiveInputs
    /\ pc = "returned"
    /\ report.status = "timeout"
    /\ sleeps = 2
    /\ prev_error

\* C18: every iteration queries each provider exactly once, also when the
\* build has failed, and the timeline and the report change inside the loop
\* only after both queries of the iteration.
C18_BothQueriedThenAnalyzed ==
    /\ [](pc = "github"
            => queries = [github |-> iteration - 1, smithery |-> iteration - 1])
    /\ [](pc = "smithery"
            => queries = [github |-> iteration, smithery |-> iteration - 1])
    /\ [](pc \in {"analyze", "sleep", "while", "returned", "raised"}
            => queries = [github |-> iteration, smithery |-> iteration])
    /\ [][(pc \in {"github", "smithery", "analyze", "sleep"}
             /\ (timeline' # timeline \/ report' # report))
            => pc = "analyze" /\ queries = [github |-> iteration, smithery |-> iteration]]_vars

C18_Witness ==
    /\ pc = "returned"
    /\ report.status = "failed"
    /\ iteration = 2
    /\ queries = [github |-> 2, smithery |-> 2]

\* C20: once setup_tools has run, every name that health_check advertises
\* in tools_available is registered on the server.
C20_AdvertisedToolsRegistered ==
    wpc = "run" => Range(health_check.tools_available) \subseteq tools

\* C21: every call of get_weather is answered with the mapping the function
\* returns: the "City name required" error for an empty city, and for any
\* other city the weather or an error mapping.
C21_GetWeatherAnswers ==
    \A i \in 1..Len(served) :
        (served[i].request.method = "tools/call"
             /\ served[i].request.name = "get_weather")
            => \E api \in WeatherApi :
                   served[i].response
                       = [result |-> get_weather(served[i].request.city, api)]

\* C22: no sleep precedes the first iteration; inside an iteration the
\* sleeps completed are one fewer than the iterations entered; the coroutine
\* is at the sleep only when the answers of the iteration meet neither the
\* success nor the failure condition; a success or failed report comes from
\* an iteration without a sleep; each sleep lasts the check interval.
C22_OneSleepPerIteration ==
    /\ pc = "call" => sleeps = 0
    /\ pc \in {"github", "smithery", "analyze", "sleep"} => sleeps = iteration - 1
    /\ pc \in {"while", "raised"} => sleeps = iteration
    /\ pc = "sleep"
          => /\ ~(BuildSucceeded(github_status) /\ DeployedHealthy(smithery_status))
             /\ ~BuildFailed(github_status)
    /\ (pc = "returned" /\ report.status \in {"success", "failed"})
          => sleeps = iteration - 1
    /\ (pc = "returned" /\ report.status = "timeout") => sleeps = iteration
    /\ PositiveInputs
          => /\ now - start_time >= sleeps * check_interval_seconds
             /\ now - start_time <= sleeps * check_interval_seconds
                                      + (queries.github + queries.smithery) * RequestTimeout

C22_Witness ==
    /\ PositiveInputs
    /\ pc = "returned"
    /\ report.status = "failed"
    /\ iteration = 2
    /\ sleeps = 1
    /\ now - start_time = check_interval_seconds + RequestTimeout

\* C23: the answers of an iteration never meet the success condition and
\* the failure condition together, so a success report comes from answers
\* that do not meet the failure condition and a failed report from answers
\* that do not meet the success condition.
C23_ConditionsExclusive ==
    pc \in {"analyze", "sleep", "returned"}
        => LET state == current_state(github_status, smithery_status)
           IN  /\ ~(success_condition(state) /\ failure_condition(state))
               /\ (pc = "returned" /\ report.status = "success")
                     => ~failure_condition(state)
               /\ (pc = "returned" /\ report.status = "failed")
                     => ~success_condition(state)

C23_Witness ==
    /\ pc = "returned"
    /\ report.status = "failed"
    /\ github_status.workflow_runs[1].conclusion = "failure"
    /\ DeployedHealthy(smithery_status)
    /\ sleeps = 1

\* C24: in the timeline of a report exactly one event is a terminal event,
\* it is the last one and its kind goes with the report status, and the
\* start event occurs once, as the first event.
C24_OneTerminalEvent ==
    pc = "returned"
        => LET events == report.timeline
               n == Len(events)
           IN  /\ n >= 2
               /\ {i \in 1..n : events[i].event_type \in TerminalEvents} = {n}
               /\ events[n].event_type = TerminalEventOf(report.status)
               /\ {i \in 1..n : events[i].event_type = "start"} = {1}

C24_Witness ==
    /\ pc = "returned"
    /\ report.status = "failed"
    /\ Len(report.timeline) = 5
    /\ report.timeline[2].event_type = "github_success"
    /\ report.timeline[4].event_type = "github_failure"

\* C25: a session that is asleep, or that has returned success or timeout,
\* has no github_failure event in its timeline.
C25_FailureEventEndsSession ==
    (pc = "sleep" \/ (pc = "returned" /\ report.status \in {"success", "timeout"}))
        => "github_failure" \notin EventTypes(timeline)

\* C26: in an answer of check_smithery_deployment that carries a summary,
\* healthy_servers <= deployed_servers <= total_servers, the deployed flag
\* holds exactly when deployed_servers > 0, the healthy servers are those
\* with a deployment URL whose probe answered 200 or 401, and a probe that
\* raises leaves the answer a non-error answer.
C26_SummaryCounts ==
    (summary_pc \in {"assess", "done"} /\ ~smithery_reply.raises)
        => LET answer == summary_smithery_status
               servers == smithery_reply.servers
           IN  /\ ~IsError(answer)
               /\ "summary" \in DOMAIN answer
                     => /\ answer.summary.healthy_servers <= answer.summary.deployed_servers
                        /\ answer.summary.deployed_servers <= answer.summary.total_servers
                        /\ answer.summary.total_servers = Len(servers)
                        /\ answer.deployed <=> answer.summary.deployed_servers > 0
                        /\ answer.summary.healthy_servers
                              = Cardinality({i \in 1..Len(servers) :
                                                /\ servers[i].deploymentUrl
                                                /\ servers[i].probe \in {"200", "401"}})

C26_Witness ==
    /\ summary_pc = "done"
    /\ ~smithery_reply.raises
    /\ \E i \in 1..Len(smithery_reply.servers) : smithery_reply.servers[i].probe = "raises"
    /\ summary_smithery_status.deployed
    /\ summary_smithery_status.summary.healthy_servers = 0

C28_Recommendations ==
    summary_pc = "done"
        => LET github == deployment_summary.github
               smithery == deployment_summary.smithery
               given == Range(deployment_summary.recommendations)
           IN  /\ (given = {})
                     <=> /\ HasRuns(github)
                         /\ github.workflow_runs[1].conclusion # "failure"
                         /\ "deployed" \in DOMAIN smithery
                         /\ smithery.deployed
                         /\ smithery.summary.healthy_servers > 0
                         /\ smithery.summary.total_tools > 0
               /\ deployment_summary.pipeline_healthy
                     => given \cap {"Consider setting up GitHub Actions",
                                    "Fix failing GitHub workflow",
                                    "Deploy your server",
                                    "Check server health"} = {}

C28_Witness ==
    /\ summary_pc = "done"
    /\ deployment_summary.pipeline_healthy
    /\ deployment_summary.recommendations = <<"Server deployed but no tools detected">>

\* C29: a call with no URL or with more than 10 URLs returns an error
\* result; every other call returns, whatever the order in which the
\* fetches ended, one entry per URL in the order of the URLs, and the
\* successful and failed counts add up to total_urls, the number of URLs.
C29_AggregatorResults ==
    agg_pc = "done"
        => IF Len(urls) = 0 \/ Len(urls) > UrlLimit
           THEN DOMAIN agg_result = {"error"}
           ELSE /\ "error" \notin DOMAIN agg_result
                /\ Len(agg_result.results) = Len(urls)
                /\ \A i \in 1..Len(urls) :
                       /\ agg_result.results[i].url = urls[i]
                       /\ ("error" \in DOMAIN agg_result.results[i])
                             <=> fetches[i] = "failed"
                /\ agg_result.total_urls = Len(urls)
                /\ agg_result.successful + agg_result.failed = agg_result.total_urls
                /\ agg_result.failed
                      = Cardinality({i \in 1..Len(urls) : fetches[i] = "failed"})

C29_Witness ==
    /\ agg_pc = "done"
    /\ urls = <<"https://a", "https://b", "https://a">>
    /\ completed = <<3, 2, 1>>
    /\ fetches = <<"ok", "failed", "ok">>
    /\ agg_result.successful = 2
    /\ agg_result.failed = 1

\* C30: main runs analyze_workflow_logs, check_github_deployment_status and
\* check_deployment_health in this order and ends without an exception,
\* with its summary printed to the last line, whatever the checks returned.
C30_MainCompletes ==
    /\ direct_exception = "none"
    /\ direct_pc # "raised"
    /\ direct_pc \in {"summary", "done"}
          => checks = <<"analyze_workflow_logs", "check_github_deployment_status",
                        "check_deployment_health">>
    /\ direct_pc = "done" => Last(printed) = "5. Verify transport"

====
